---- MODULE Spec2Model ----
(***************************************************************************)
(* inline_vector<T>: a fixed-capacity vector over a caller-owned block,    *)
(* kept as three pointers _data / _end / _cap (inline_vector.h).           *)
(*                                                                         *)
(* Memory is one flat array of element slots; a pointer is an address.     *)
(* Two blocks live in it, each followed by Guard slots the caller owns but *)
(* did not hand to the container.  A slot is Raw (no object), MovedFrom (a *)
(* live object that was moved from) or holds a value of Values.  T is a    *)
(* type with a destructor and a destructive move (is_trivially_destructible*)
(* is FALSE), the case in which object lifetimes are observable.           *)
(*                                                                         *)
(* A call is one step.  The step records the call and the state before it  *)
(* (call, old); the caller then drops that record (Return) and calls       *)
(* again.  The caller goes on only while the program has defined           *)
(* behaviour: once the cursors and the slots disagree (WellFormed fails)   *)
(* no further call is modelled.                                            *)
(***************************************************************************)
EXTENDS Integers, Sequences, FiniteSets, TLC

VARIABLES vec, mem, call, old, touched, misuse

vars == <<vec, mem, call, old, touched, misuse>>

\* ---------------------------------------------------------------- bounds
Cap == 4        \* slots of the first block; the second block has two less
Guard == 1      \* slots behind each block that are not part of it

CapA == Cap
CapB == Cap - 2
MaxLen == Cap       \* longest input range / largest count

\* ------------------------------------------------------- memory and types
nullptr == 0
BaseA == 1
BaseB == BaseA + CapA + Guard
MemEnd == BaseB + CapB + Guard
Addr == BaseA..(MemEnd - 1)
Pointers == nullptr..MemEnd

Raw == -1
MovedFrom == 0
\* two element values that can be told apart
Values == {1, 2}

Containers == {"A", "B"}

\* size_type is an unsigned integer: differences wrap modulo SizeMod
SizeMod == 2^16

error_handler == "_noop"
is_trivially_destructible == FALSE

\* the input range of n elements that starts with value s and alternates
Pattern(n, s) == [k \in 1..n |-> IF k % 2 = 1 THEN s ELSE 3 - s]
Ranges == {Pattern(n, s) : n \in 0..MaxLen, s \in Values}
Counts == 0..MaxLen

\* first address behind the memory the caller owns around the block at p
RegionEnd(p) == IF p < BaseB THEN BaseB ELSE MemEnd

\* ------------------------------------------------ element lifecycle engine
\* H = [slots, touched, misuse]: the memory, the addresses at which an element
\* was constructed, assigned or destroyed, and whether a primitive was applied
\* to a slot in the wrong state (construct on live, assign/destroy/read on raw)
Heap(m) == [slots |-> m, touched |-> {}, misuse |-> FALSE]

load(H, a) == IF a \in DOMAIN H.slots THEN H.slots[a] ELSE Raw

store(H, a, x) == IF a \in DOMAIN H.slots THEN [H.slots EXCEPT ![a] = x] ELSE H.slots

\* ::new ((void *)a) T(x)
construct_at(H, a, x) ==
    [slots   |-> store(H, a, x),
     touched |-> H.touched \cup {a},
     misuse  |-> H.misuse \/ load(H, a) # Raw \/ x = Raw]

\* *a = x
assign_at(H, a, x) ==
    [slots   |-> store(H, a, x),
     touched |-> H.touched \cup {a},
     misuse  |-> H.misuse \/ load(H, a) = Raw \/ x = Raw]

destroy_at(H, ptr) ==
    [slots   |-> store(H, ptr, Raw),
     touched |-> H.touched \cup {ptr},
     misuse  |-> H.misuse \/ load(H, ptr) = Raw]

\* std::move(*a): the object at a is left moved-from
moved_from(H, a) ==
    [H EXCEPT !.slots = IF load(H, a) = Raw THEN H.slots ELSE store(H, a, MovedFrom)]

\* ::new (dst) T(std::move(*src))
move_construct(H, dst, src) == construct_at(moved_from(H, src), dst, load(H, src))

\* *dst = std::move(*src)
move_assign_at(H, dst, src) == assign_at(moved_from(H, src), dst, load(H, src))

RECURSIVE destroy(_, _, _)
destroy(H, first, last) ==
    IF first = last THEN H
    ELSE destroy(destroy_at(H, first), first + 1, last)

\* I is the source range as a sequence of values
RECURSIVE uninitialized_copy_n(_, _, _, _)
uninitialized_copy_n(H, I, C, Dest) ==
    IF C = 0 THEN H
    ELSE uninitialized_copy_n(construct_at(H, Dest, IF I = <<>> THEN Raw ELSE Head(I)),
                              IF I = <<>> THEN I ELSE Tail(I), C - 1, Dest + 1)

RECURSIVE uninitialized_fill_n(_, _, _, _)
uninitialized_fill_n(H, I, C, V) ==
    IF C = 0 THEN H
    ELSE uninitialized_fill_n(construct_at(H, I, V), I + 1, C - 1, V)

\* source ranges inside the memory: [I, E) are addresses
RECURSIVE uninitialized_copy(_, _, _, _)
uninitialized_copy(H, I, E, Dest) ==
    IF I = E THEN H
    ELSE uninitialized_copy(construct_at(H, Dest, load(H, I)), I + 1, E, Dest + 1)

RECURSIVE uninitialized_move(_, _, _, _)
uninitialized_move(H, I, E, Dest) ==
    IF I = E THEN H
    ELSE uninitialized_move(move_construct(H, Dest, I), I + 1, E, Dest + 1)

\* std::copy(first, last, d_first): returns the heap and the end of the output
RECURSIVE std_copy(_, _, _, _)
std_copy(H, first, last, d_first) ==
    IF first = last THEN [h |-> H, it |-> d_first]
    ELSE std_copy(assign_at(H, d_first, load(H, first)), first + 1, last, d_first + 1)

\* std::move(first, last, d_first)
RECURSIVE std_move(_, _, _, _)
std_move(H, first, last, d_first) ==
    IF first = last THEN [h |-> H, it |-> d_first]
    ELSE std_move(move_assign_at(H, d_first, first), first + 1, last, d_first + 1)

\* mutant of move_backward: the same moves, lowest index first
RECURSIVE move_backward_ascending(_, _, _, _)
move_backward_ascending(H, first, last, d_last) ==
    IF first = last THEN H
    ELSE move_backward_ascending(move_assign_at(H, d_last - (last - first), first),
                                 first + 1, last, d_last)

\* std::move_backward(first, last, d_last): highest index first
RECURSIVE move_backward(_, _, _, _)
move_backward(H, first, last, d_last) ==
    IF first = last THEN H
    ELSE move_backward(move_assign_at(H, d_last - 1, last - 1), first, last - 1, d_last - 1)

\* ------------------------------------------------------ capacity and bounds
\* V = [_data, _end, _cap]: the three pointers of one container
size(V) == (V._end - V._data) % SizeMod

capacity(V) == (V._cap - V._data) % SizeMod

empty(V) == size(V) = 0

\* mutant of full: off by one
full_off_by_one(V) == size(V) > capacity(V)

full(V) == size(V) >= capacity(V)

\* under _noop and _saturate the value handed in is returned; _error_code
\* returns the iterator behind it (_exception throws and is not modelled)
return_error(ret) ==
    IF error_handler \in {"_noop", "_saturate"} THEN ret
    ELSE IF error_handler = "_error_code" THEN ret + 1
    ELSE ret

\* what an operation yields: the container's pointers, the heap, the result
Result(V, H, r) == [v |-> V, h |-> H, ret |-> r]

clear(V, H) ==
    Result([V EXCEPT !._end = V._data],
           IF ~is_trivially_destructible THEN destroy(H, V._data, V._end) ELSE H,
           0)

\* ------------------------------------------------------------- insertion
\* mutant of emplace_back: the bounds check is missing
emplace_back_unchecked(V, H, x) ==
    Result([V EXCEPT !._end = V._end + 1], construct_at(H, V._end, x), V._end)

emplace_back(V, H, x) ==
    LET it == V._end IN
    IF size(V) < capacity(V)
    THEN Result([V EXCEPT !._end = V._end + 1], construct_at(H, it, x), it)
    ELSE Result(V, H, it)

push_back(V, H, value) ==
    LET R == emplace_back(V, H, value) IN Result(R.v, R.h, 0)

unchecked_emplace_back(V, H, x) ==
    LET it == V._end IN
    Result([V EXCEPT !._end = V._end + 1], construct_at(H, it, x), it)

shove_back(V, H, value) ==
    LET R == unchecked_emplace_back(V, H, value) IN Result(R.v, R.h, 0)

emplace(V, H, pos, x) ==
    LET insert_idx == (pos - V._data) % SizeMod
        ret_it     == V._data + insert_idx
    IN  IF pos = V._end
        THEN IF ~full(V)
             THEN Result([V EXCEPT !._end = V._end + 1], construct_at(H, ret_it, x), ret_it)
             ELSE Result(V, H, return_error(ret_it))
        ELSE IF full(V)
             THEN Result(V, H, return_error(ret_it))
             ELSE LET tmp == x
                      H1  == move_construct(H, V._end, V._end - 1)
                      H2  == move_backward(H1, V._data + insert_idx, V._end - 1, V._end)
                      H3  == assign_at(H2, ret_it, tmp)
                  IN  Result([V EXCEPT !._end = V._end + 1], H3, ret_it)

insert(V, H, pos, value) == emplace(V, H, pos, value)

\* --------------------------------------------------------------- removal
\* mutant of pop_back: the emptiness check is missing
pop_back_unchecked(V, H) ==
    Result([V EXCEPT !._end = V._end - 1], destroy_at(H, V._end - 1), 0)

pop_back(V, H) ==
    IF size(V) # 0
    THEN LET V1 == [V EXCEPT !._end = V._end - 1] IN
         Result(V1, IF is_trivially_destructible THEN H ELSE destroy_at(H, V1._end), 0)
    ELSE Result(V, H, 0)

\* for (; first != last; ++dest, ++first) *dest = std::move(*first);
RECURSIVE erase_shift(_, _, _, _)
erase_shift(H, first, last, dest) ==
    IF first = last THEN H
    ELSE erase_shift(move_assign_at(H, dest, first), first + 1, last, dest + 1)

\* mutant of erase: the last element is moved into the hole, nothing is shifted
erase_swap_with_last(V, H, pos) ==
    LET H1 == IF pos # V._end - 1 THEN move_assign_at(H, pos, V._end - 1) ELSE H
    IN  Result([V EXCEPT !._end = V._end - 1], destroy_at(H1, V._end - 1), pos)

erase(V, H, pos) ==
    LET erase_idx == (pos - V._data) % SizeMod
        H1 == erase_shift(H, V._data + erase_idx + 1, V._end, V._data + erase_idx)
        H2 == destroy_at(H1, V._end - 1)
    IN  Result([V EXCEPT !._end = V._end - 1], H2, V._data + erase_idx)

\* erase(pos) with pos == end(), which the assertion of erase accepts: first
\* starts at end() + 1, behind last == end(), so first != last never fails and
\* the loop moves slot after slot one down, reading and writing behind the live
\* range, until the process faults at some address; destroy_at and _end -= 1
\* are not reached and the call does not return
erase_past_end(V, H, pos, fault) ==
    LET erase_idx == (pos - V._data) % SizeMod
        H1 == erase_shift(H, V._data + erase_idx + 1, fault, V._data + erase_idx)
    IN  Result(V, H1, 0)

\* ------------------------------------------------ bulk append and assign
\* mutant of append_count_value: as many copies as fit are appended
append_count_value_saturating(V, H, count, value) ==
    LET space_remaining == (capacity(V) - size(V)) % SizeMod
        fits == IF count <= space_remaining THEN count ELSE space_remaining
    IN  Result([V EXCEPT !._end = V._end + fits],
               uninitialized_fill_n(H, V._end, fits, value), 0)

\* append(size_type count, const T &value)
append_count_value(V, H, count, value) ==
    LET space_remaining == (capacity(V) - size(V)) % SizeMod IN
    IF count # 0 /\ count <= space_remaining
    THEN Result([V EXCEPT !._end = V._end + count],
                uninitialized_fill_n(H, V._end, count, value), 0)
    ELSE Result(V, H, 0)

\* mutant of saturating_loop: the loop does not test size() < capacity()
RECURSIVE saturating_loop_unbounded(_, _, _)
saturating_loop_unbounded(V, H, rng) ==
    IF rng # <<>>
    THEN LET R == unchecked_emplace_back(V, H, Head(rng)) IN
         saturating_loop_unbounded(R.v, R.h, Tail(rng))
    ELSE Result(V, H, 0)

\* for (; first != last && size() < capacity(); ++first) unchecked_emplace_back(*first);
RECURSIVE saturating_loop(_, _, _)
saturating_loop(V, H, rng) ==
    IF rng # <<>> /\ size(V) < capacity(V)
    THEN LET R == unchecked_emplace_back(V, H, Head(rng)) IN
         saturating_loop(R.v, R.h, Tail(rng))
    ELSE Result(V, H, 0)

\* rng is [first, last); ra: the iterators are random-access (length known)
append_range(V, H, rng, ra) ==
    LET ret_it == V._end IN
    IF rng = <<>> THEN Result(V, H, ret_it)
    ELSE IF ra
         THEN LET insert_count == Len(rng) IN
              IF /\ insert_count > (capacity(V) - size(V)) % SizeMod
                 /\ error_handler # "_noop"
              THEN Result(V, H, return_error(ret_it))
              ELSE Result([V EXCEPT !._end = V._end + insert_count],
                          uninitialized_copy_n(H, rng, insert_count, V._end), ret_it)
         ELSE LET R == saturating_loop(V, H, rng) IN Result(R.v, R.h, ret_it)

\* append(It1 first, It1 last)
append(V, H, rng, ra) ==
    LET R == append_range(V, H, rng, ra) IN Result(R.v, R.h, 0)

\* assign(size_type count, const T &value); the last statement is _end = count
assign_count_value(V, H, count, value) ==
    IF count <= capacity(V)
    THEN LET C == clear(V, H) IN
         Result([C.v EXCEPT !._end = count],
                uninitialized_fill_n(C.h, C.v._data, count, value), 0)
    ELSE Result(V, H, 0)

\* assign(It1 first, It1 last); the known-length branch ends with _end = insert_count
assign_range(V, H, rng, ra) ==
    IF ra
    THEN LET insert_count == Len(rng) IN
         IF (size(V) + insert_count) % SizeMod <= capacity(V)
         THEN LET C == clear(V, H) IN
              Result([C.v EXCEPT !._end = insert_count],
                     uninitialized_copy_n(C.h, rng, insert_count, C.v._end), 0)
         ELSE Result(V, H, 0)
    ELSE LET C == clear(V, H) IN saturating_loop(C.v, C.h, rng)

\* assign(std::initializer_list<T>): its iterators are pointers
assign_ilist(V, H, ilist) == assign_range(V, H, ilist, TRUE)

\* ---------------------------------------------- two containers: this, other
Result2(V, O, H, r) == [v |-> V, o |-> O, h |-> H, ret |-> r]

\* mutant of copy_assignment: a source that does not fit is copied as far as
\* the capacity goes
copy_assignment_truncating(V, O, H, same, _begin) ==
    LET rhs_size == size(O)
        lhs_size == size(V)
        lhs_cap  == capacity(V)
    IN  IF same THEN Result2(V, O, H, 0)
        ELSE IF lhs_size >= rhs_size
        THEN LET C  == IF rhs_size # 0
                       THEN std_copy(H, O._data, O._data + rhs_size, V._data)
                       ELSE [h |-> H, it |-> V._data]
                 H2 == destroy(C.h, C.it, V._end)
             IN  Result2([V EXCEPT !._end = _begin + rhs_size], O, H2, 0)
        ELSE LET fits == IF rhs_size <= lhs_cap THEN rhs_size ELSE lhs_cap
                 C  == std_copy(H, O._data, O._data + lhs_size, V._data)
                 H2 == uninitialized_copy(C.h, O._data + lhs_size, O._data + fits,
                                          V._data + lhs_size)
             IN  Result2([V EXCEPT !._end = _begin + fits], O, H2, 0)

\* operator=(const inline_vector &other); same: this == &other.  The code sets
\* _end from _begin, a name the class does not declare: its value is unknown
copy_assignment(V, O, H, same, _begin) ==
    LET rhs_size == size(O)
        lhs_size == size(V)
        lhs_cap  == capacity(V)
    IN  IF same THEN Result2(V, O, H, 0)
        ELSE IF lhs_size >= rhs_size
        THEN LET C  == IF rhs_size # 0
                       THEN std_copy(H, O._data, O._data + rhs_size, V._data)
                       ELSE [h |-> H, it |-> V._data]
                 H2 == destroy(C.h, C.it, V._end)
             IN  Result2([V EXCEPT !._end = _begin + rhs_size], O, H2, 0)
        ELSE IF rhs_size <= lhs_cap
        THEN LET C  == std_copy(H, O._data, O._data + lhs_size, V._data)
                 H2 == uninitialized_copy(C.h, O._data + lhs_size, O._data + rhs_size,
                                          V._data + lhs_size)
             IN  Result2([V EXCEPT !._end = _begin + rhs_size], O, H2, 0)
        ELSE Result2(V, O, H, 0)

\* mutant of move_assignment: the source is not cleared afterwards
move_assignment_keeps_source(V, O, H, same) ==
    LET rhs_size == size(O)
        lhs_size == size(V)
        lhs_cap  == capacity(V)
    IN  IF same THEN Result2(V, O, H, 0)
        ELSE IF lhs_size >= rhs_size
        THEN LET C  == IF rhs_size # 0
                       THEN std_move(H, O._data, O._data + rhs_size, V._data)
                       ELSE [h |-> H, it |-> V._data]
                 H2 == destroy(C.h, C.it, V._end)
             IN  Result2([V EXCEPT !._end = V._data + rhs_size], O, H2, 0)
        ELSE IF rhs_size <= lhs_cap
        THEN LET C  == std_move(H, O._data, O._data + lhs_size, V._data)
                 H2 == uninitialized_move(C.h, O._data + lhs_size, O._data + rhs_size,
                                          V._data + lhs_size)
             IN  Result2([V EXCEPT !._end = V._data + rhs_size], O, H2, 0)
        ELSE Result2(V, O, H, 0)

\* operator=(inline_vector &&other)
move_assignment(V, O, H, same) ==
    LET rhs_size == size(O)
        lhs_size == size(V)
        lhs_cap  == capacity(V)
    IN  IF same THEN Result2(V, O, H, 0)
        ELSE IF lhs_size >= rhs_size
        THEN LET C  == IF rhs_size # 0
                       THEN std_move(H, O._data, O._data + rhs_size, V._data)
                       ELSE [h |-> H, it |-> V._data]
                 H2 == destroy(C.h, C.it, V._end)
                 K  == clear(O, H2)
             IN  Result2([V EXCEPT !._end = V._data + rhs_size], K.v, K.h, 0)
        ELSE IF rhs_size <= lhs_cap
        THEN LET C  == std_move(H, O._data, O._data + lhs_size, V._data)
                 H2 == uninitialized_move(C.h, O._data + lhs_size, O._data + rhs_size,
                                          V._data + lhs_size)
                 K  == clear(O, H2)
             IN  Result2([V EXCEPT !._end = V._data + rhs_size], K.v, K.h, 0)
        ELSE Result2(V, O, H, 0)

\* a container whose members have their default initializers: all three null
Unbound == [_data |-> nullptr, _end |-> nullptr, _cap |-> nullptr]

\* inline_vector(const inline_vector &other): O is the source, the object
\* under construction starts out Unbound
copy_constructor(O, H, _begin) ==
    IF ~empty(O) THEN copy_assignment(Unbound, O, H, FALSE, _begin)
    ELSE Result2(Unbound, O, H, 0)

\* mutant of move_constructor: the cursors of the source are taken over
move_constructor_steals(O, H) == Result2(O, Unbound, H, 0)

\* inline_vector(inline_vector &&other)
move_constructor(O, H) ==
    IF ~empty(O) THEN move_assignment(Unbound, O, H, FALSE)
    ELSE Result2(Unbound, O, H, 0)

\* mutant of swap: _cap is not exchanged
swap_without_cap(V, O, H, same) ==
    IF same THEN Result2(V, O, H, 0)
    ELSE Result2([_data |-> O._data, _end |-> O._end, _cap |-> V._cap],
                 [_data |-> V._data, _end |-> V._end, _cap |-> O._cap], H, 0)

\* mutant of swap: the saved cursors are not written to other
swap_one_way(V, O, H, same) ==
    IF same THEN Result2(V, O, H, 0)
    ELSE Result2([_data |-> O._data, _end |-> O._end, _cap |-> O._cap], O, H, 0)

swap(V, O, H, same) ==
    IF same THEN Result2(V, O, H, 0)
    ELSE Result2([_data |-> O._data, _end |-> O._end, _cap |-> O._cap],
                 [_data |-> V._data, _end |-> V._end, _cap |-> V._cap], H, 0)

\* the end of a container's lifetime.  The class declares no destructor and
\* nothing reads its template parameter destruct_on_exit: the implicit
\* destructor ends the lifetime of the three pointers and of nothing else
implicit_destructor(V, H, destruct_on_exit) == Result(V, H, 0)

max(a, b) == IF a < b THEN b ELSE a

unchecked_reserve(V, H, n) ==
    LET c == (V._cap - V._data) % SizeMod
        m == max(c, n)
    IN  Result([V EXCEPT !._cap = V._data + m], H, m)

\* ------------------------------------------------------------ the program
\* the cursors are ordered and exactly the slots of a live range hold objects
WellFormed ==
    /\ ~misuse
    /\ \A c \in DOMAIN vec : vec[c]._data <= vec[c]._end /\ vec[c]._end <= vec[c]._cap
    /\ \A a \in DOMAIN mem :
          mem[a] # Raw <=> \E c \in DOMAIN vec : vec[c]._data <= a /\ a < vec[c]._end

NoCall ==
    [op |-> "none", this |-> "-", other |-> "-", pos |-> 0, count |-> 0,
     value |-> 0, range |-> <<>>, ret |-> 0, destruct_on_exit |-> FALSE,
     returned |-> TRUE]

Ready == call.op = "none"

\* a call on container c ends with result R; cl names the call
Apply1(c, R, cl) ==
    /\ R.h.touched \subseteq DOMAIN mem
    /\ vec' = [vec EXCEPT ![c] = R.v]
    /\ mem' = R.h.slots
    /\ touched' = R.h.touched
    /\ misuse' = R.h.misuse
    /\ call' = [cl EXCEPT !.this = c, !.ret = R.ret]
    /\ old' = [vec |-> vec, mem |-> mem]

\* a call on container c with argument o ends with result R
Apply2(c, o, R, cl) ==
    /\ R.h.touched \subseteq DOMAIN mem
    /\ vec' = [vec EXCEPT ![o] = R.o, ![c] = R.v]
    /\ mem' = R.h.slots
    /\ touched' = R.h.touched
    /\ misuse' = R.h.misuse
    /\ call' = [cl EXCEPT !.this = c, !.other = o, !.ret = R.ret]
    /\ old' = [vec |-> vec, mem |-> mem]

Init ==
    /\ vec = [c \in Containers |->
                IF c = "A" THEN [_data |-> BaseA, _end |-> BaseA, _cap |-> BaseA + CapA]
                           ELSE [_data |-> BaseB, _end |-> BaseB, _cap |-> BaseB + CapB]]
    /\ mem = [a \in Addr |-> Raw]
    /\ call = NoCall
    /\ old = [vec |-> vec, mem |-> mem]
    /\ touched = {}
    /\ misuse = FALSE

EmplaceBack(c, x) ==
    /\ Ready
    /\ Apply1(c, emplace_back(vec[c], Heap(mem), x),
              [NoCall EXCEPT !.op = "emplace_back", !.value = x])

PushBack(c, x) ==
    /\ Ready
    /\ Apply1(c, push_back(vec[c], Heap(mem), x),
              [NoCall EXCEPT !.op = "push_back", !.value = x])

\* precondition (caller-proven): size() < capacity()
UncheckedEmplaceBack(c, x) ==
    /\ Ready
    /\ size(vec[c]) < capacity(vec[c])
    /\ Apply1(c, unchecked_emplace_back(vec[c], Heap(mem), x),
              [NoCall EXCEPT !.op = "unchecked_emplace_back", !.value = x])

ShoveBack(c, x) ==
    /\ Ready
    /\ size(vec[c]) < capacity(vec[c])
    /\ Apply1(c, shove_back(vec[c], Heap(mem), x),
              [NoCall EXCEPT !.op = "shove_back", !.value = x])

\* precondition: cbegin() <= pos <= cend()
Emplace(c, pos, x) ==
    /\ Ready
    /\ vec[c]._data <= pos /\ pos <= vec[c]._end
    /\ Apply1(c, emplace(vec[c], Heap(mem), pos, x),
              [NoCall EXCEPT !.op = "emplace", !.pos = pos, !.value = x])

Insert(c, pos, x) ==
    /\ Ready
    /\ vec[c]._data <= pos /\ pos <= vec[c]._end
    /\ Apply1(c, insert(vec[c], Heap(mem), pos, x),
              [NoCall EXCEPT !.op = "insert", !.pos = pos, !.value = x])

PopBack(c) ==
    /\ Ready
    /\ Apply1(c, pop_back(vec[c], Heap(mem)), [NoCall EXCEPT !.op = "pop_back"])

\* precondition: pos within [begin(), end())
Erase(c, pos) ==
    /\ Ready
    /\ vec[c]._data <= pos /\ pos < vec[c]._end
    /\ Apply1(c, erase(vec[c], Heap(mem), pos),
              [NoCall EXCEPT !.op = "erase", !.pos = pos])

\* pos == end(): the loop runs until a fault at an address behind end()
EraseAtEnd(c, fault) ==
    /\ Ready
    /\ vec[c]._end < fault
    /\ Apply1(c, erase_past_end(vec[c], Heap(mem), vec[c]._end, fault),
              [NoCall EXCEPT !.op = "erase_at_end", !.pos = vec[c]._end,
                             !.returned = FALSE])

Clear(c) ==
    /\ Ready
    /\ Apply1(c, clear(vec[c], Heap(mem)), [NoCall EXCEPT !.op = "clear"])

AppendCountValue(c, count, x) ==
    /\ Ready
    /\ Apply1(c, append_count_value(vec[c], Heap(mem), count, x),
              [NoCall EXCEPT !.op = "append_count_value", !.count = count, !.value = x])

\* append(first, last) with random-access iterators
AppendRange(c, rng) ==
    /\ Ready
    /\ Apply1(c, append(vec[c], Heap(mem), rng, TRUE),
              [NoCall EXCEPT !.op = "append", !.range = rng])

\* append(first, last) with iterators of any other category
AppendInput(c, rng) ==
    /\ Ready
    /\ Apply1(c, append(vec[c], Heap(mem), rng, FALSE),
              [NoCall EXCEPT !.op = "append_input", !.range = rng])

AssignCountValue(c, count, x) ==
    /\ Ready
    /\ Apply1(c, assign_count_value(vec[c], Heap(mem), count, x),
              [NoCall EXCEPT !.op = "assign_count_value", !.count = count, !.value = x])

AssignRange(c, rng) ==
    /\ Ready
    /\ Apply1(c, assign_range(vec[c], Heap(mem), rng, TRUE),
              [NoCall EXCEPT !.op = "assign_range", !.range = rng])

AssignInput(c, rng) ==
    /\ Ready
    /\ Apply1(c, assign_range(vec[c], Heap(mem), rng, FALSE),
              [NoCall EXCEPT !.op = "assign_input", !.range = rng])

AssignIlist(c, rng) ==
    /\ Ready
    /\ Apply1(c, assign_ilist(vec[c], Heap(mem), rng),
              [NoCall EXCEPT !.op = "assign_ilist", !.range = rng])

CopyAssignment(c, o, _begin) ==
    /\ Ready
    /\ Apply2(c, o, copy_assignment(vec[c], vec[o], Heap(mem), c = o, _begin),
              [NoCall EXCEPT !.op = "copy_assignment"])

MoveAssignment(c, o) ==
    /\ Ready
    /\ Apply2(c, o, move_assignment(vec[c], vec[o], Heap(mem), c = o),
              [NoCall EXCEPT !.op = "move_assignment"])

Swap(c, o) ==
    /\ Ready
    /\ Apply2(c, o, swap(vec[c], vec[o], Heap(mem), c = o), [NoCall EXCEPT !.op = "swap"])

\* a container of type inline_vector<T, destruct_on_exit> goes out of scope
EndOfLifetime(c, destruct_on_exit) ==
    /\ Ready
    /\ Apply1(c, implicit_destructor(vec[c], Heap(mem), destruct_on_exit),
              [NoCall EXCEPT !.op = "destructor", !.destruct_on_exit = destruct_on_exit])

\* the caller vouches for n slots: they lie in memory it owns around the block
UncheckedReserve(c, n) ==
    /\ Ready
    /\ vec[c]._data + n <= RegionEnd(vec[c]._data)
    /\ Apply1(c, unchecked_reserve(vec[c], Heap(mem), n),
              [NoCall EXCEPT !.op = "unchecked_reserve", !.count = n])

\* the caller has seen the result and goes on, if the program is still defined
\* and the container still exists
Return ==
    /\ ~Ready
    /\ WellFormed
    /\ call.op # "destructor"
    /\ call.returned
    /\ call' = NoCall
    /\ old' = [vec |-> vec, mem |-> mem]
    /\ touched' = {}
    /\ misuse' = FALSE
    /\ UNCHANGED <<vec, mem>>

\* every call the caller can make with element values Vals and input ranges Rngs
Calls(Vals, Rngs) ==
    \/ \E c \in Containers, x \in Vals : EmplaceBack(c, x)
    \/ \E c \in Containers, x \in Vals : PushBack(c, x)
    \/ \E c \in Containers, x \in Vals : UncheckedEmplaceBack(c, x)
    \/ \E c \in Containers, x \in Vals : ShoveBack(c, x)
    \/ \E c \in Containers, pos \in Pointers, x \in Vals : Emplace(c, pos, x)
    \/ \E c \in Containers, pos \in Pointers, x \in Vals : Insert(c, pos, x)
    \/ \E c \in Containers : PopBack(c)
    \/ \E c \in Containers, pos \in Pointers : Erase(c, pos)
    \/ \E c \in Containers, fault \in Pointers : EraseAtEnd(c, fault)
    \/ \E c \in Containers : Clear(c)
    \/ \E c \in Containers, n \in Counts, x \in Vals : AppendCountValue(c, n, x)
    \/ \E c \in Containers, rng \in Rngs : AppendRange(c, rng)
    \/ \E c \in Containers, rng \in Rngs : AppendInput(c, rng)
    \/ \E c \in Containers, n \in Counts, x \in Vals : AssignCountValue(c, n, x)
    \/ \E c \in Containers, rng \in Rngs : AssignRange(c, rng)
    \/ \E c \in Containers, rng \in Rngs : AssignInput(c, rng)
    \/ \E c \in Containers, rng \in Rngs : AssignIlist(c, rng)
    \/ \E c \in Containers, o \in Containers, b \in Pointers : CopyAssignment(c, o, b)
    \/ \E c \in Containers, o \in Containers : MoveAssignment(c, o)
    \/ \E c \in Containers, o \in Containers : Swap(c, o)
    \/ \E c \in Containers, d \in BOOLEAN : EndOfLifetime(c, d)

Next ==
    \/ Return
    \/ Calls(Values, Ranges)

Spec == Init /\ [][Next]_vars

\* the same caller, who also uses unchecked_reserve.  Capacity does not depend
\* on the element values, so this caller works with a single value
NextReserve ==
    \/ Return
    \/ Calls({1}, {[k \in 1..n |-> 1] : n \in 0..MaxLen})
    \/ \E c \in Containers, n \in Counts : UncheckedReserve(c, n)

SpecReserve == Init /\ [][NextReserve]_vars

\* a caller with three containers A, A2 and B, each bound to a block of CapB
\* slots of its own, who copy-assigns them to one another
Containers3 == {"A", "A2", "B"}
Base3(c) == BaseA + (CapB + Guard) * (IF c = "A" THEN 0 ELSE IF c = "A2" THEN 1 ELSE 2)
Mem3End == BaseA + (CapB + Guard) * Cardinality(Containers3)
Addr3 == BaseA..(Mem3End - 1)
Pointers3 == nullptr..Mem3End

Init3 ==
    /\ vec = [c \in Containers3 |->
                [_data |-> Base3(c), _end |-> Base3(c), _cap |-> Base3(c) + CapB]]
    /\ mem = [a \in Addr3 |-> Raw]
    /\ call = NoCall
    /\ old = [vec |-> vec, mem |-> mem]
    /\ touched = {}
    /\ misuse = FALSE

\* A = B has just returned; the caller goes on with A2 = A
CopyAssignmentAgain(a2, _begin) ==
    /\ call.op = "copy_assignment"
    /\ call.this # call.other
    /\ a2 \notin {call.this, call.other}
    /\ WellFormed
    /\ Apply2(a2, call.this,
              copy_assignment(vec[a2], vec[call.this], Heap(mem), FALSE, _begin),
              [NoCall EXCEPT !.op = "copy_assignment_again"])

Next3 ==
    \/ Return
    \/ \E c \in Containers3, x \in Values : EmplaceBack(c, x)
    \/ \E c \in Containers3 : PopBack(c)
    \/ \E c \in Containers3, o \in Containers3, b \in Pointers3 : CopyAssignment(c, o, b)
    \/ \E a2 \in Containers3, b \in Pointers3 : CopyAssignmentAgain(a2, b)

Spec3 == Init3 /\ [][Next3]_vars

\* a caller who also constructs a new container, N, from one of its containers
\* (a later construction replaces N)
Construct(o, R, cl) ==
    /\ R.h.touched \subseteq DOMAIN mem
    /\ vec' = [c \in DOMAIN vec \cup {"N"} |->
                 IF c = "N" THEN R.v ELSE IF c = o THEN R.o ELSE vec[c]]
    /\ mem' = R.h.slots
    /\ touched' = R.h.touched
    /\ misuse' = R.h.misuse
    /\ call' = [cl EXCEPT !.this = "N", !.other = o, !.ret = R.ret]
    /\ old' = [vec |-> vec, mem |-> mem]

CopyConstruct(o, _begin) ==
    /\ Ready
    /\ Construct(o, copy_constructor(vec[o], Heap(mem), _begin),
                 [NoCall EXCEPT !.op = "copy_constructor"])

MoveConstruct(o) ==
    /\ Ready
    /\ Construct(o, move_constructor(vec[o], Heap(mem)),
                 [NoCall EXCEPT !.op = "move_constructor"])

NextConstruct ==
    \/ Return
    \/ \E c \in Containers, x \in Values : EmplaceBack(c, x)
    \/ \E c \in Containers : PopBack(c)
    \/ \E c \in Containers, o \in Containers : Swap(c, o)
    \/ \E o \in Containers, b \in Pointers : CopyConstruct(o, b)
    \/ \E o \in Containers : MoveConstruct(o)

SpecConstruct == Init /\ [][NextConstruct]_vars

\* ================================================================ claims
\* the elements of the container with pointers V in memory m, first to last
Elems(V, m) ==
    IF V._data <= V._end
    THEN [i \in 1..(V._end - V._data) |->
            IF V._data + i - 1 \in DOMAIN m THEN m[V._data + i - 1] ELSE Raw]
    ELSE <<>>

\* the slots of the block V is bound to
Block(V) == {a \in Pointers : V._data <= a /\ a < V._cap}

This == vec[call.this]
This0 == old.vec[call.this]
Other == vec[call.other]
Other0 == old.vec[call.other]
Elems0(c) == Elems(old.vec[c], old.mem)
Unchanged == vec = old.vec /\ mem = old.mem

\* the mutators that check the bounds themselves
CheckedOps ==
    {"emplace_back", "push_back", "emplace", "insert", "pop_back", "erase", "clear",
     "append_count_value", "append", "append_input", "assign_count_value",
     "assign_range", "assign_input", "assign_ilist", "copy_assignment",
     "move_assignment", "swap"}

\* C1: after every sequence of public operations called within their
\* preconditions, 0 <= size() <= capacity() holds for every container.
C1_SizeWithinCapacity ==
    \A c \in Containers : 0 <= size(vec[c]) /\ size(vec[c]) <= capacity(vec[c])

\* C2: no bounds-checked operation constructs, assigns or destroys an element
\* at a slot index >= capacity() of the block of a container it was called on.
C2_NoAccessBehindCapacity ==
    call.op \in CheckedOps =>
        touched \subseteq
            (Block(This0) \cup (IF call.other \in Containers THEN Block(Other0) ELSE {}))

\* C3: append(first, last) with a range of known length n is all-or-nothing:
\* if n <= capacity() - size() the n elements follow the existing ones and
\* size() grows by n, otherwise size() and the contents are unchanged.
C3_AppendAllOrNothing ==
    call.op = "append" =>
        LET n == Len(call.range) IN
        IF n <= capacity(This0) - size(This0)
        THEN /\ size(This) = size(This0) + n
             /\ Elems(This, mem) = Elems0(call.this) \o call.range
        ELSE Unchanged

\* C4: after every sequence of bounds-checked operations exactly the slots
\* [0, size()) of each container are constructed and the slots
\* [size(), capacity()) are raw, and no operation constructed on a live slot,
\* assigned to or destroyed a raw slot, or destroyed an element twice.
C4_ExactlyLiveRangeConstructed ==
    /\ ~misuse
    /\ \A c \in Containers : \A i \in 0..(capacity(vec[c]) - 1) :
          mem[vec[c]._data + i] # Raw <=> i < size(vec[c])

\* C5 as stated: capacity() of a container never changes once it is bound.
C5_CapacityNeverChanges ==
    \A c \in Containers : capacity(vec[c]) = capacity(old.vec[c])

\* C5, amended: capacity() of a container changes under no public operation
\* but swap, which exchanges the capacities of the two containers, and
\* unchecked_reserve(n), which makes it max(capacity(), n).
C5_CapacityChangesOnlyBySwapAndReserve ==
    IF call.op = "swap"
    THEN /\ capacity(This) = capacity(Other0)
         /\ capacity(Other) = capacity(This0)
    ELSE IF call.op = "unchecked_reserve"
    THEN /\ capacity(This) = max(capacity(This0), call.count)
         /\ call.ret = capacity(This)
         /\ \A c \in Containers \ {call.this} : capacity(vec[c]) = capacity(old.vec[c])
    ELSE \A c \in Containers : capacity(vec[c]) = capacity(old.vec[c])

\* a swap of the two containers, whose capacities differ, has happened
C5_Witness ==
    /\ call.op = "swap"
    /\ call.this # call.other
    /\ capacity(This) # capacity(This0)
    /\ size(This) > 0

\* C6: push_back/emplace_back(v) while size() < capacity() increases size() by
\* exactly 1, makes v the last element and leaves the earlier elements
\* unchanged; while full it leaves size() and all elements unchanged.
C6_PushBack ==
    call.op \in {"push_back", "emplace_back"} =>
        IF size(This0) < capacity(This0)
        THEN /\ size(This) = size(This0) + 1
             /\ Elems(This, mem) = Elems0(call.this) \o <<call.value>>
        ELSE Unchanged

\* push_back on a container that holds elements and has room
C6_Witness ==
    /\ call.op = "push_back"
    /\ size(This0) >= 1
    /\ size(This0) < capacity(This0)

\* C7: on a non-full container with contents s, insert/emplace(begin()+i, v)
\* with 0 <= i <= size() yields s[0..i) ++ [v] ++ s[i..size), size() + 1
\* elements, and returns the iterator at index i.
C7_EmplaceShiftsRight ==
    (call.op \in {"emplace", "insert"} /\ size(This0) < capacity(This0)) =>
        LET s == Elems0(call.this)
            i == call.pos - This0._data
        IN  /\ size(This) = size(This0) + 1
            /\ Elems(This, mem) = SubSeq(s, 1, i) \o <<call.value>> \o SubSeq(s, i + 1, Len(s))
            /\ call.ret = This._data + i

\* an emplace in front of at least two elements
C7_Witness ==
    /\ call.op = "emplace"
    /\ size(This0) < capacity(This0)
    /\ call.pos + 2 <= This0._end

\* C8: insert/emplace at any position in [begin(), end()] on a full container
\* performs no mutation: size(), capacity() and every element are unchanged.
C8_EmplaceFullNoMutation ==
    (call.op \in {"emplace", "insert"} /\ size(This0) >= capacity(This0)) =>
        /\ Unchanged
        /\ touched = {}

\* an insert at end() of a full container
C8_Witness ==
    /\ call.op = "insert"
    /\ size(This0) >= capacity(This0)
    /\ size(This0) >= 1
    /\ call.pos = This0._end

\* C9: for pos in [begin(), end()), erase(pos) decreases size() by 1, removes
\* only the element at pos, keeps the order of the others and returns the
\* iterator at the index of pos (end() if pos was the last element).
C9_EraseShiftsLeft ==
    call.op = "erase" =>
        LET s == Elems0(call.this)
            i == call.pos - This0._data
        IN  /\ size(This) = size(This0) - 1
            /\ Elems(This, mem) = SubSeq(s, 1, i) \o SubSeq(s, i + 2, Len(s))
            /\ call.ret = This._data + i
            /\ (i = Len(s) - 1) => call.ret = This._end

\* an erase in front of at least two elements
C9_Witness ==
    /\ call.op = "erase"
    /\ call.pos + 3 <= This0._end

\* C10: pop_back() on a non-empty container decreases size() by 1 and removes
\* only the last element; on an empty container it leaves the whole state
\* (size, capacity, cursors) unchanged.
C10_PopBack ==
    call.op = "pop_back" =>
        IF size(This0) # 0
        THEN /\ size(This) = size(This0) - 1
             /\ Elems(This, mem) = SubSeq(Elems0(call.this), 1, size(This0) - 1)
             /\ This._data = This0._data /\ This._cap = This0._cap
        ELSE Unchanged

\* pop_back on an empty container
C10_Witness ==
    /\ call.op = "pop_back"
    /\ size(This0) = 0

\* the first n elements of the sequence s
Prefix(s, n) == SubSeq(s, 1, IF n < Len(s) THEN n ELSE Len(s))

\* C11 as stated: after any move-assignment A = move(B) between two distinct
\* containers B ends with size() == 0 and A holds B's former elements in
\* order, up to A's capacity.
C11_MoveAssignmentAlways ==
    (call.op = "move_assignment" /\ call.this # call.other) =>
        /\ size(Other) = 0
        /\ Elems(This, mem) = Prefix(Elems0(call.other), capacity(This0))

\* C11, amended: after a move-assignment A = move(B) between two distinct
\* containers with B.size() <= A.capacity(), B ends with size() == 0 and no
\* constructed slot, and A holds exactly B's former elements in order.
C11_MoveAssignmentThatFits ==
    (/\ call.op = "move_assignment"
     /\ call.this # call.other
     /\ size(Other0) <= capacity(This0)) =>
        /\ size(Other) = 0
        /\ \A a \in Block(Other0) : mem[a] = Raw
        /\ size(This) = size(Other0)
        /\ Elems(This, mem) = Elems0(call.other)

\* a move-assignment of at least two elements onto a shorter container
C11_Witness ==
    /\ call.op = "move_assignment"
    /\ call.this # call.other
    /\ size(Other0) >= 2
    /\ size(This0) >= 1
    /\ size(This0) < size(Other0)
    /\ size(Other0) <= capacity(This0)

\* C12: copy-assignment A = B between distinct containers with
\* B.size() <= A.capacity() leaves A with size() == B.size() and A[i] == B[i]
\* for every i, whatever A.size() was; A's capacity and block and B's size and
\* elements are unchanged.
C12_CopyAssignment ==
    (/\ call.op = "copy_assignment"
     /\ call.this # call.other
     /\ size(Other0) <= capacity(This0)) =>
        /\ size(This) = size(Other0)
        /\ Elems(This, mem) = Elems0(call.other)
        /\ This._data = This0._data /\ This._cap = This0._cap
        /\ Other = Other0
        /\ Elems(Other, mem) = Elems0(call.other)

\* C13: assign(n, v) with n <= capacity() results in size() == n with every
\* element equal to v, whatever the previous size and contents.
C13_AssignCountValue ==
    (call.op = "assign_count_value" /\ call.count <= capacity(This0)) =>
        /\ size(This) = call.count
        /\ Elems(This, mem) = [i \in 1..call.count |-> call.value]

\* C14: assign(first, last) / assign(initializer list) with a range of n
\* elements, n <= capacity(), replaces the contents: the previous elements are
\* destroyed and afterwards size() == n and the elements equal the range in
\* order, for every previous size().
C14_AssignRange ==
    (/\ call.op \in {"assign_range", "assign_input", "assign_ilist"}
     /\ Len(call.range) <= capacity(This0)) =>
        /\ size(This) = Len(call.range)
        /\ Elems(This, mem) = call.range
        /\ \A a \in Addr : (This0._data <= a /\ a < This0._end) => a \in touched

\* C15: copy-assignment is idempotent under repetition: for containers A, A2
\* and B, after A = B followed by A2 = A, A2 equals A element-wise (same size,
\* same elements in the same order); stated for an A that fits in A2.
C15_CopyAssignmentIdempotent ==
    (call.op = "copy_assignment_again" /\ size(Other0) <= capacity(This0)) =>
        /\ size(This) = size(Other)
        /\ Elems(This, mem) = Elems(Other, mem)

\* C16: a.swap(b) exchanges the three cursors of a and b: afterwards a has b's
\* former start, size, capacity and elements and b has a's, no element is
\* constructed, moved or destroyed, and a second swap (or a swap of a container
\* with itself) restores the original state of both.
C16_SwapExchangesCursors ==
    call.op = "swap" =>
        /\ mem = old.mem /\ touched = {} /\ ~misuse
        /\ IF call.this = call.other
           THEN Unchanged
           ELSE /\ This = Other0 /\ Other = This0
                /\ Elems(This, mem) = Elems0(call.other)
                /\ Elems(Other, mem) = Elems0(call.this)
        /\ LET R == swap(This, Other, Heap(mem), call.this = call.other)
           IN  R.v = This0 /\ R.o = Other0 /\ R.h.slots = old.mem

\* a swap of two containers with different contents
C16_Witness ==
    /\ call.op = "swap"
    /\ call.this # call.other
    /\ size(This0) >= 2
    /\ size(Other0) >= 1
    /\ Elems0(call.this) # Elems0(call.other)

\* C17: when a container's lifetime ends, every element live in it at that
\* moment is destroyed, each exactly once, so no slot of its block is still
\* constructed afterwards; the block itself stays.  Stated for a container
\* type that asks for destruction on exit.
C17_DestructionDestroysLive ==
    (call.op = "destructor" /\ call.destruct_on_exit) =>
        /\ \A a \in Block(This0) : mem[a] = Raw
        /\ touched = {a \in Addr : This0._data <= a /\ a < This0._end}
        /\ ~misuse
        /\ DOMAIN mem = DOMAIN old.mem

\* C18: append(first, last) with a range of n elements whose length is not
\* known up front appends exactly the first min(n, capacity() - size())
\* elements in source order, one at a time, stops as soon as the container is
\* full and leaves the previously live elements unchanged.
C18_AppendInputSaturates ==
    call.op = "append_input" =>
        LET n    == Len(call.range)
            room == capacity(This0) - size(This0)
            k    == IF n < room THEN n ELSE room
        IN  /\ size(This) = size(This0) + k
            /\ Elems(This, mem) = Elems0(call.this) \o SubSeq(call.range, 1, k)
            /\ touched = {This0._end + i : i \in 0..(k - 1)}
            /\ ~misuse

\* an append of a range longer than the room left in a container with elements
C18_Witness ==
    /\ call.op = "append_input"
    /\ size(This0) >= 1
    /\ capacity(This0) - size(This0) >= 2
    /\ Len(call.range) > capacity(This0) - size(This0)

\* C19: append(count, value) is all-or-nothing under the no-op policy: if
\* count <= capacity() - size() then size() grows by exactly count, the new
\* trailing elements all equal value and the earlier elements are unchanged;
\* if count > capacity() - size() (or count == 0) the state is unchanged.
C19_AppendCountAllOrNothing ==
    call.op = "append_count_value" =>
        IF call.count # 0 /\ call.count <= capacity(This0) - size(This0)
        THEN /\ size(This) = size(This0) + call.count
             /\ Elems(This, mem) = Elems0(call.this) \o [i \in 1..call.count |-> call.value]
             /\ ~misuse
        ELSE Unchanged /\ touched = {}

\* an append of more copies than the room left, where some would fit
C19_Witness ==
    /\ call.op = "append_count_value"
    /\ size(This0) >= 1
    /\ capacity(This0) - size(This0) >= 1
    /\ call.count > capacity(This0) - size(This0)

\* C20: erase(pos) terminates and leaves 0 <= size() <= capacity() for every
\* position its own assertion accepts, begin() <= pos <= end(), including
\* pos == end() and any erase on an empty container.
C20_EraseTerminates ==
    call.op \in {"erase", "erase_at_end"} =>
        /\ call.returned
        /\ 0 <= size(This) /\ size(This) <= capacity(This)

\* C21: under the no-op policy a copy-assignment or move-assignment A = B with
\* B.size() > A.capacity() changes nothing in either container: A keeps its
\* size, capacity and elements, and B keeps its size and elements (a
\* move-assignment does not clear or move from B in this case).
C21_AssignmentTooLargeNoChange ==
    (/\ call.op \in {"copy_assignment", "move_assignment"}
     /\ call.this # call.other
     /\ size(Other0) > capacity(This0)) =>
        /\ Unchanged
        /\ touched = {}
        /\ ~misuse

\* a copy-assignment of a source that does not fit onto a container with elements
C21_Witness ==
    /\ call.op = "copy_assignment"
    /\ call.this # call.other
    /\ size(This0) >= 1
    /\ size(This0) < capacity(This0)
    /\ size(Other0) > capacity(This0)

\* C22: under the no-op policy a container copy-constructed or
\* move-constructed from any other container is unbound and empty (size() == 0,
\* capacity() == 0, all three cursors null), never views the source's block,
\* and leaves the source's size, capacity and elements unchanged, even for
\* move-construction.
C22_ConstructedUnboundEmpty ==
    call.op \in {"copy_constructor", "move_constructor"} =>
        /\ size(This) = 0 /\ capacity(This) = 0
        /\ This._data = nullptr /\ This._end = nullptr /\ This._cap = nullptr
        /\ Block(This) \cap Block(Other0) = {}
        /\ Other = Other0
        /\ Elems(Other, mem) = Elems0(call.other)
        /\ mem = old.mem /\ touched = {} /\ ~misuse

\* a move-construction from a container that holds elements
C22_Witness ==
    /\ call.op = "move_constructor"
    /\ size(Other0) >= 2

====
